---- MODULE Spec2Model ----
(***************************************************************************)
(* A model of eligibility_pipeline.py: the field normalisers, the         *)
(* per-partner standardisation (standardize_dataframe), the read step     *)
(* (ingest_partner) and the orchestrating loop (main).                    *)
(*                                                                         *)
(* A text is a sequence of one-character strings.  A cell of a DataFrame  *)
(* is a record [k, s]: k = "str" for a text s, and k = "nan", "NA" or     *)
(* "None" for the three missing values pandas keeps apart (float nan as   *)
(* read_csv yields for an empty cell, pd.NA, Python None).                *)
(***************************************************************************)
EXTENDS Integers, Sequences, FiniteSets, TLC

VARIABLES
    \* ---- main(): the orchestrating loop
    config,        \* PARTNER_CONFIG: the partners in declared order
    old_pandas,    \* TRUE when read_csv does not know on_bad_lines (pandas < 1.3)
    pc,            \* "loop", "done" or "raised" (an exception left main)
    idx,           \* number of partners the loop has gone through
    all_partners,  \* list of non-empty standardized frames
    all_dropped,   \* list of non-empty dropped frames
    raised_by,     \* "none", "read" or "standardize": where the exception arose
    unified_csv,   \* output/unified_eligibility.csv: [written, df]
    dropped_csv,   \* output/dropped_rows.csv: [written, df]
    history,       \* per processed partner: what its read did and what it returned
    \* ---- one call of standardize_dataframe, and a second call on its output
    phase,         \* "idle", "input", "once", "twice"
    df_in,         \* the frame passed in
    conf_in,       \* the partner_conf passed in
    res,           \* result of the call
    res2,          \* result of the call on res.std with the identity mapping
    \* ---- one call of format_phone
    ph_phase,      \* "idle", "input", "called"
    phone_in,      \* the argument
    phone_out      \* the returned value

main_vars == <<config, old_pandas, pc, idx, all_partners, all_dropped, raised_by,
               unified_csv, dropped_csv, history>>
std_vars == <<phase, df_in, conf_in, res, res2>>
phone_vars == <<ph_phase, phone_in, phone_out>>
vars == <<main_vars, std_vars, phone_vars>>

(***************************************************************************)
(* Bounds of the model.                                                    *)
(***************************************************************************)
MaxPartners == 2
MaxRows == 2
MaxFileRows == 2
MaxPhoneLen == 11

(***************************************************************************)
(* Cells.                                                                  *)
(***************************************************************************)
Str(s) == [k |-> "str", s |-> s]
NaN == [k |-> "nan", s |-> <<>>]
NA == [k |-> "NA", s |-> <<>>]
None == [k |-> "None", s |-> <<>>]

\* pd.isna on a scalar
isna(v) == v.k # "str"

\* str(v), which is what Series.astype(str) does to every element
\* of an object column (pandas 1.x and 2.x, for which the code's
\* replace("Nan") of a stringified nan is written)
astype_str(v) ==
    CASE v.k = "str" -> v.s
      [] v.k = "nan" -> <<"n", "a", "n">>
      [] v.k = "NA" -> <<"<", "N", "A", ">">>
      [] v.k = "None" -> <<"N", "o", "n", "e">>

(***************************************************************************)
(* Characters.                                                             *)
(***************************************************************************)
Lowers == <<"a", "b", "c", "d", "e", "f", "g", "h", "i", "j", "k", "l", "m",
            "n", "o", "p", "q", "r", "s", "t", "u", "v", "w", "x", "y", "z">>
Uppers == <<"A", "B", "C", "D", "E", "F", "G", "H", "I", "J", "K", "L", "M",
            "N", "O", "P", "Q", "R", "S", "T", "U", "V", "W", "X", "Y", "Z">>
Digits == <<"0", "1", "2", "3", "4", "5", "6", "7", "8", "9">>

Range(f) == {f[i] : i \in DOMAIN f}
Pos(c, seq) == CHOOSE i \in DOMAIN seq : seq[i] = c

islower(c) == c \in Range(Lowers)
isupper(c) == c \in Range(Uppers)
isdigit(c) == c \in Range(Digits)
isspace(c) == c \in {" ", "\t"}
upper(c) == IF islower(c) THEN Uppers[Pos(c, Lowers)] ELSE c
lower(c) == IF isupper(c) THEN Lowers[Pos(c, Uppers)] ELSE c
DigitVal(c) == Pos(c, Digits) - 1

\* str.lower()
str_lower(s) == [i \in DOMAIN s |-> lower(s[i])]

\* str.title(): a cased character is upper-cased when the character before it
\* is not cased, lower-cased otherwise
str_title(s) ==
    [i \in DOMAIN s |->
        IF i > 1 /\ (islower(s[i - 1]) \/ isupper(s[i - 1]))
        THEN lower(s[i])
        ELSE upper(s[i])]

\* str.strip()
RECURSIVE lstrip(_)
lstrip(s) == IF s # <<>> /\ isspace(Head(s)) THEN lstrip(Tail(s)) ELSE s
RECURSIVE rstrip(_)
rstrip(s) ==
    IF s # <<>> /\ isspace(s[Len(s)]) THEN rstrip(SubSeq(s, 1, Len(s) - 1)) ELSE s
str_strip(s) == rstrip(lstrip(s))

\* Series.replace(old, pd.NA) on one element
replace_with_NA(s, old) == IF s = old THEN NA ELSE Str(s)

(***************************************************************************)
(* format_phone                                                            *)
(***************************************************************************)
\* re.sub(r"\D", "", phone)
RECURSIVE sub_nondigits(_)
sub_nondigits(s) ==
    IF s = <<>> THEN <<>>
    ELSE IF isdigit(Head(s)) THEN <<Head(s)>> \o sub_nondigits(Tail(s))
    ELSE sub_nondigits(Tail(s))

\* what a plausible slip would do: keep the last ten digits of a longer number
format_phone_truncating(phone) ==
    IF isna(phone) THEN None
    ELSE LET digits == sub_nondigits(astype_str(phone))
             n == Len(digits)
         IN  IF n >= 10
             THEN Str(SubSeq(digits, n - 9, n - 7) \o <<"-">>
                      \o SubSeq(digits, n - 6, n - 4) \o <<"-">>
                      \o SubSeq(digits, n - 3, n))
             ELSE None

format_phone(phone) ==
    IF isna(phone) THEN None
    ELSE LET digits == sub_nondigits(astype_str(phone))
         IN  IF Len(digits) = 10
             THEN Str(SubSeq(digits, 1, 3) \o <<"-">> \o SubSeq(digits, 4, 6)
                      \o <<"-">> \o SubSeq(digits, 7, 10))
             ELSE None

(***************************************************************************)
(* pd.to_datetime(..., errors="coerce").dt.strftime("%Y-%m-%d"), element   *)
(* by element: an ISO date (YYYY-MM-DD) or a US date (MM/DD/YYYY) naming a *)
(* day of the calendar parses, any other text and any missing value is NaT, *)
(* and strftime of NaT is nan.                                             *)
(***************************************************************************)
NaT == [nat |-> TRUE, y |-> 0, m |-> 0, d |-> 0]

AllDigits(s) == \A i \in DOMAIN s : isdigit(s[i])

RECURSIVE Num(_)
Num(s) == IF s = <<>> THEN 0 ELSE 10 * Num(SubSeq(s, 1, Len(s) - 1)) + DigitVal(s[Len(s)])

IsLeap(y) == (y % 4 = 0 /\ y % 100 # 0) \/ y % 400 = 0

DaysIn(y, m) ==
    IF m = 2 THEN (IF IsLeap(y) THEN 29 ELSE 28)
    ELSE IF m \in {4, 6, 9, 11} THEN 30 ELSE 31

Calendar(y, m, d) ==
    IF m \in 1..12 /\ d >= 1 /\ d <= DaysIn(y, m)
    THEN [nat |-> FALSE, y |-> y, m |-> m, d |-> d]
    ELSE NaT

to_datetime(v) ==
    IF isna(v) THEN NaT
    ELSE LET s == v.s
         IN  IF Len(s) = 10 /\ s[5] = "-" /\ s[8] = "-"
                /\ AllDigits(SubSeq(s, 1, 4) \o SubSeq(s, 6, 7) \o SubSeq(s, 9, 10))
             THEN Calendar(Num(SubSeq(s, 1, 4)), Num(SubSeq(s, 6, 7)), Num(SubSeq(s, 9, 10)))
             ELSE IF Len(s) = 10 /\ s[3] = "/" /\ s[6] = "/"
                     /\ AllDigits(SubSeq(s, 1, 2) \o SubSeq(s, 4, 5) \o SubSeq(s, 7, 10))
             THEN Calendar(Num(SubSeq(s, 7, 10)), Num(SubSeq(s, 1, 2)), Num(SubSeq(s, 4, 5)))
             ELSE NaT

\* the decimal digits of n, zero-padded to the given width
RECURSIVE Pad(_, _)
Pad(n, width) ==
    IF width = 0 THEN <<>> ELSE Append(Pad(n \div 10, width - 1), Digits[(n % 10) + 1])

strftime(t) ==
    IF t.nat THEN NaN
    ELSE Str(Pad(t.y, 4) \o <<"-">> \o Pad(t.m, 2) \o <<"-">> \o Pad(t.d, 2))

(***************************************************************************)
(* DataFrames: [columns, rows], the columns a sequence of names (pandas    *)
(* allows a name twice), each row a sequence of cells, one per column.     *)
(***************************************************************************)
CanonicalCols == <<"external_id", "first_name", "last_name", "dob", "email", "phone">>
OutputCols == CanonicalCols \o <<"partner_code">>

\* pd.DataFrame(columns=empty_cols)
EmptyFrame == [columns |-> OutputCols, rows |-> <<>>]

HasCol(df, c) == \E i \in DOMAIN df.columns : df.columns[i] = c
HasDup(df, c) == Cardinality({i \in DOMAIN df.columns : df.columns[i] = c}) > 1
ColIdx(df, c) == CHOOSE i \in DOMAIN df.columns : df.columns[i] = c
CellOf(df, row, c) == row[ColIdx(df, c)]

\* df.rename(columns=mapping)
rename(df, mapping) ==
    [columns |-> [i \in DOMAIN df.columns |->
                    IF df.columns[i] \in DOMAIN mapping
                    THEN mapping[df.columns[i]]
                    ELSE df.columns[i]],
     rows |-> df.rows]

\* df[c] = v for a new column c
add_column(df, c, v) ==
    [columns |-> Append(df.columns, c),
     rows |-> [r \in DOMAIN df.rows |-> Append(df.rows[r], v)]]

\* df[c] = v, df.assign(c=v): the column is overwritten when it is there
set_column(df, c, v) ==
    IF HasCol(df, c)
    THEN [columns |-> df.columns,
          rows |-> [r \in DOMAIN df.rows |->
                      [i \in DOMAIN df.columns |->
                          IF df.columns[i] = c THEN v ELSE df.rows[r][i]]]]
    ELSE add_column(df, c, v)

\* the loop that adds each expected column that is missing, all pd.NA
RECURSIVE ensure_columns(_, _)
ensure_columns(df, cols) ==
    IF cols = <<>> THEN df
    ELSE ensure_columns(IF HasCol(df, Head(cols)) THEN df ELSE add_column(df, Head(cols), NA),
                        Tail(cols))

(***************************************************************************)
(* standardize_dataframe                                                   *)
(***************************************************************************)
\* a variant that forgets the whitespace test: only null ids are missing
mask_missing_id_unstripped(df, row) == isna(CellOf(df, row, "external_id"))

\* df["external_id"].isna() | df["external_id"].astype(str).str.strip().eq("")
mask_missing_id(df, row) ==
    \/ isna(CellOf(df, row, "external_id"))
    \/ str_strip(astype_str(CellOf(df, row, "external_id"))) = <<>>

\* df[dropped_mask]
RECURSIVE masked_rows(_, _)
masked_rows(df, rows) ==
    IF rows = <<>> THEN <<>>
    ELSE (IF mask_missing_id(df, Head(rows)) THEN <<Head(rows)>> ELSE <<>>)
         \o masked_rows(df, Tail(rows))

\* a variant that keeps every row whose id is not null, blank ones included
RECURSIVE unmasked_rows_nonnull(_, _)
unmasked_rows_nonnull(df, rows) ==
    IF rows = <<>> THEN <<>>
    ELSE (IF ~isna(CellOf(df, Head(rows), "external_id")) THEN <<Head(rows)>> ELSE <<>>)
         \o unmasked_rows_nonnull(df, Tail(rows))

\* df[~dropped_mask]
RECURSIVE unmasked_rows(_, _)
unmasked_rows(df, rows) ==
    IF rows = <<>> THEN <<>>
    ELSE (IF ~mask_missing_id(df, Head(rows)) THEN <<Head(rows)>> ELSE <<>>)
         \o unmasked_rows(df, Tail(rows))

\* the transformations on one kept row, and kept.loc[:, cols]
standardize_row(df, row, partner_code) ==
    <<CellOf(df, row, "external_id"),
      replace_with_NA(str_title(astype_str(CellOf(df, row, "first_name"))), <<"N", "a", "n">>),
      replace_with_NA(str_title(astype_str(CellOf(df, row, "last_name"))), <<"N", "a", "n">>),
      strftime(to_datetime(CellOf(df, row, "dob"))),
      replace_with_NA(str_lower(astype_str(CellOf(df, row, "email"))), <<"n", "a", "n">>),
      format_phone(CellOf(df, row, "phone")),
      Str(partner_code)>>

standardized_frame(df, partner_code) ==
    LET kept == unmasked_rows(df, df.rows)
    IN  [columns |-> OutputCols,
         rows |-> [r \in DOMAIN kept |-> standardize_row(df, kept[r], partner_code)]]

\* a variant that runs the kept rows' transformations on the dropped rows too
dropped_frame_normalized(df, partner_code) ==
    LET dropped_rows == masked_rows(df, df.rows)
    IN  set_column([columns |-> df.columns,
                    rows |-> [r \in DOMAIN dropped_rows |->
                                [i \in DOMAIN df.columns |->
                                    IF df.columns[i] \in {"first_name", "last_name"}
                                    THEN replace_with_NA(str_title(astype_str(dropped_rows[r][i])),
                                                         <<"N", "a", "n">>)
                                    ELSE dropped_rows[r][i]]]],
                   "partner_code", Str(partner_code))

\* dropped_rows, with partner_code assigned when there is a dropped row
dropped_frame(df, partner_code) ==
    LET dropped_rows == [columns |-> df.columns, rows |-> masked_rows(df, df.rows)]
    IN  IF dropped_rows.rows # <<>>
        THEN set_column(dropped_rows, "partner_code", Str(partner_code))
        ELSE dropped_rows

\* A column name held twice makes df[name] a DataFrame: it has no .str
\* accessor (external_id, first_name, last_name, email: AttributeError) and
\* pd.to_datetime cannot assemble it (dob: ValueError).
standardize_raises(df) ==
    \E c \in {"external_id", "first_name", "last_name", "email", "dob"} : HasDup(df, c)

standardize_dataframe(df0, partner_conf) ==
    LET df == ensure_columns(rename(df0, partner_conf.column_mapping), CanonicalCols)
    IN  IF standardize_raises(df)
        THEN [raised |-> TRUE, std |-> EmptyFrame, dropped |-> EmptyFrame]
        ELSE [raised |-> FALSE,
              std |-> standardized_frame(df, partner_conf.partner_code),
              dropped |-> dropped_frame(df, partner_conf.partner_code)]

(***************************************************************************)
(* Inputs.  A sample gives one raw row's value per field; a layout is a    *)
(* partner's raw header, its column_mapping, and which field of the sample *)
(* each raw column carries.                                                *)
(***************************************************************************)
ProfValid ==
    [first_name |-> Str(<<"j", "o", "H", "N">>),
     last_name |-> Str(<<"o", "'", "n", "e", "i", "l">>),
     dob |-> Str(<<"2", "0", "2", "0", "-", "0", "1", "-", "1", "5">>),
     email |-> Str(<<"J", "@", "X", ".", "i", "o">>),
     phone |-> Str(<<"(", "5", "5", "5", ")", " ", "1", "2", "3", "-", "4", "5", "6", "7">>),
     plan |-> Str(<<"g", "o", "l", "d">>)]

ProfBad ==
    [first_name |-> Str(<<" ", " ">>),
     last_name |-> Str(<<"m", "c", " ", "k", "a", "y">>),
     dob |-> Str(<<"n", "o", "t", "-", "a", "-", "d", "a", "t", "e">>),
     email |-> Str(<<" ", " ">>),
     phone |-> Str(<<"1", "2", "3", "4", "5">>),
     plan |-> Str(<<"g", "o", "l", "d">>)]

ProfNormalized ==
    [first_name |-> Str(<<"J", "o", "h", "n">>),
     last_name |-> Str(<<"D", "o", "e">>),
     dob |-> Str(<<"2", "0", "2", "0", "-", "0", "1", "-", "1", "5">>),
     email |-> Str(<<"j", "@", "x", ".", "i", "o">>),
     phone |-> Str(<<"5", "5", "5", "-", "1", "2", "3", "-", "4", "5", "6", "7">>),
     plan |-> Str(<<"g", "o", "l", "d">>)]

ProfUS ==
    [first_name |-> Str(<<"A", "N", "N", " ", "L", "E", "E">>),
     last_name |-> Str(<<"d", "e", " ", "l", "a", " ", "O">>),
     dob |-> Str(<<"0", "1", "/", "1", "5", "/", "2", "0", "2", "0">>),
     email |-> Str(<<"A", "n", "n", ".", "L", "e", "e", "@", "X", ".", "I", "O">>),
     phone |-> Str(<<"+", "1", "-", "5", "5", "5", "-", "1", "2", "3", "-", "4", "5", "6", "7">>),
     plan |-> Str(<<"g", "o", "l", "d">>)]

ProfNull ==
    [first_name |-> NaN,
     last_name |-> NaN,
     dob |-> NaN,
     email |-> NaN,
     phone |-> NaN,
     plan |-> NaN]

Profiles == {ProfValid, ProfBad, ProfNormalized, ProfUS, ProfNull}

\* external_id values: null, empty, whitespace only, plain, padded
Ids == {NaN, Str(<<>>), Str(<<" ", " ">>), Str(<<"A", "1">>), Str(<<" ", "7", " ">>)}

Samples == {[external_id |-> id] @@ prof : id \in Ids, prof \in Profiles}

\* what read_csv(dtype=str) can yield for the loop of main: text or nan
FileSamples == {[external_id |-> id] @@ ProfValid : id \in {NaN, Str(<<"A", "1">>)}}

RawField ==
    [c \in {"MBI", "FNAME", "LNAME", "DOB", "EMAIL", "PHONE", "PLAN",
            "external_id", "first_name", "last_name", "dob", "email", "phone"} |->
        CASE c = "MBI" -> "external_id"
          [] c = "FNAME" -> "first_name"
          [] c = "LNAME" -> "last_name"
          [] c = "DOB" -> "dob"
          [] c = "EMAIL" -> "email"
          [] c = "PHONE" -> "phone"
          [] c = "PLAN" -> "plan"
          [] OTHER -> c]

PartnerMapping ==
    ("MBI" :> "external_id") @@ ("FNAME" :> "first_name") @@ ("LNAME" :> "last_name")
    @@ ("DOB" :> "dob") @@ ("EMAIL" :> "email") @@ ("PHONE" :> "phone")

IdentityMapping == [c \in Range(CanonicalCols) |-> c]

\* every mapped column is there
LayoutMapped ==
    [header |-> <<"MBI", "FNAME", "LNAME", "DOB", "EMAIL", "PHONE">>,
     column_mapping |-> PartnerMapping]
\* last name, email and phone are not in the file; PLAN is not mapped
LayoutSparse ==
    [header |-> <<"MBI", "FNAME", "DOB", "PLAN">>, column_mapping |-> PartnerMapping]
\* the id column is not in the file
LayoutNoId ==
    [header |-> <<"FNAME", "LNAME", "DOB", "EMAIL", "PHONE">>, column_mapping |-> PartnerMapping]
\* an unmapped raw column already named external_id, next to the mapped id column
LayoutDup ==
    [header |-> <<"MBI", "external_id", "FNAME", "LNAME", "DOB", "EMAIL", "PHONE">>,
     column_mapping |-> PartnerMapping]
\* canonical names, identity mapping
LayoutCanonical ==
    [header |-> CanonicalCols, column_mapping |-> IdentityMapping]

Layouts == {LayoutMapped, LayoutSparse, LayoutNoId, LayoutDup, LayoutCanonical}
FileLayouts == {LayoutMapped, LayoutNoId, LayoutDup}

SeqsUpTo(S, n) == UNION {[1..k -> S] : k \in 0..n}

\* the raw frame of a layout holding the given samples
RawFrame(layout, samples) ==
    [columns |-> layout.header,
     rows |-> [r \in DOMAIN samples |->
                 [i \in DOMAIN layout.header |-> samples[r][RawField[layout.header[i]]]]]]

PartnerCode(i) == <<"P", Digits[i + 1]>>

(***************************************************************************)
(* One call of format_phone.                                               *)
(***************************************************************************)
PhoneChars == {"1", "5", "-"}
PhoneSamples == {NaN, None, Str(<<"(", "5", "5", "5", ")", " ", "1", "2", "3", "-", "4", "5", "6", "7">>), Str(<<"+", "1", "-", "5", "5", "5", "-", "1", "2", "3", "-", "4", "5", "6", "7">>), Str(<<"1", "2", "3", "4", "5">>)}
PhoneInputs == PhoneSamples \cup {Str(s) : s \in SeqsUpTo(PhoneChars, MaxPhoneLen)}

FormatPhoneCall ==
    /\ ph_phase = "idle"
    /\ \E phone \in PhoneInputs :
        /\ phone_in' = phone
        /\ phone_out' = format_phone(phone)
    /\ ph_phase' = "called"
    /\ UNCHANGED <<main_vars, std_vars>>

(***************************************************************************)
(* One call of standardize_dataframe on a partner's frame, and a second    *)
(* call on the accepted frame it returned, with the identity mapping.      *)
(***************************************************************************)
StandardizeCall ==
    /\ phase = "idle"
    /\ \E layout \in Layouts, samples \in SeqsUpTo(Samples, MaxRows) :
        LET conf == [partner_code |-> PartnerCode(1),
                     column_mapping |-> layout.column_mapping]
            df == RawFrame(layout, samples)
        IN  /\ df_in' = df
            /\ conf_in' = conf
            /\ res' = standardize_dataframe(df, conf)
    /\ phase' = "once"
    /\ UNCHANGED <<res2, main_vars, phone_vars>>

StandardizeAgain ==
    /\ phase = "once"
    /\ ~res.raised
    /\ res2' = standardize_dataframe(res.std, [partner_code |-> conf_in.partner_code,
                                               column_mapping |-> IdentityMapping])
    /\ phase' = "twice"
    /\ UNCHANGED <<df_in, conf_in, res, main_vars, phone_vars>>

(***************************************************************************)
(* ingest_partner.  A file is [readable, df]: whether read_csv can read it *)
(* and the frame it then yields.  The result says whether an exception     *)
(* left the function ("read": out of a read_csv call, "standardize": out   *)
(* of standardize_dataframe) and, when none did, the two frames returned.  *)
(***************************************************************************)
\* The first read_csv call passes on_bad_lines.  A pandas that knows it reads
\* the file, or raises what `except Exception` turns into two empty frames.
\* A pandas that does not know it raises TypeError, and the read is repeated
\* inside `except TypeError`: what that second call raises is inside a
\* handler, where the sibling `except Exception` does not apply.
read_outcome(file, old) ==
    IF ~old
    THEN (IF file.readable THEN "frame" ELSE "handled")
    ELSE (IF file.readable THEN "frame" ELSE "propagates")

ingest_partner(partner_conf, file, old) ==
    LET outcome == read_outcome(file, old)
    IN  CASE outcome = "handled" ->
               [raised |-> "none", read_ok |-> FALSE, std |-> EmptyFrame, dropped |-> EmptyFrame]
          [] outcome = "propagates" ->
               [raised |-> "read", read_ok |-> FALSE, std |-> EmptyFrame, dropped |-> EmptyFrame]
          [] outcome = "frame" ->
               LET r == standardize_dataframe(file.df, partner_conf)
               IN  [raised |-> IF r.raised THEN "standardize" ELSE "none",
                    read_ok |-> TRUE, std |-> r.std, dropped |-> r.dropped]

(***************************************************************************)
(* pd.concat(frames, ignore_index=True): the columns are the union of the  *)
(* frames' columns in order of first appearance, the rows follow frame by  *)
(* frame, and a cell of a column a frame does not have is nan.             *)
(***************************************************************************)
RECURSIVE merge_columns(_, _)
merge_columns(acc, cols) ==
    IF cols = <<>> THEN acc
    ELSE merge_columns(IF Head(cols) \in Range(acc) THEN acc ELSE Append(acc, Head(cols)),
                       Tail(cols))

RECURSIVE union_columns(_, _)
union_columns(acc, frames) ==
    IF frames = <<>> THEN acc
    ELSE union_columns(merge_columns(acc, Head(frames).columns), Tail(frames))

reindex_rows(df, cols) ==
    [r \in DOMAIN df.rows |->
        [i \in DOMAIN cols |->
            IF HasCol(df, cols[i]) THEN CellOf(df, df.rows[r], cols[i]) ELSE NaN]]

\* a variant that stacks the frames last to first
RECURSIVE stack_rows_reversed(_, _)
stack_rows_reversed(frames, cols) ==
    IF frames = <<>> THEN <<>>
    ELSE stack_rows_reversed(Tail(frames), cols) \o reindex_rows(Head(frames), cols)

RECURSIVE stack_rows(_, _)
stack_rows(frames, cols) ==
    IF frames = <<>> THEN <<>>
    ELSE reindex_rows(Head(frames), cols) \o stack_rows(Tail(frames), cols)

concat(frames) ==
    LET cols == union_columns(<<>>, frames)
    IN  [columns |-> cols, rows |-> stack_rows(frames, cols)]

(***************************************************************************)
(* main: one step per partner of the loop, then the two writes.            *)
(***************************************************************************)
NotWritten == [written |-> FALSE, df |-> EmptyFrame]

\* a file read_csv cannot read yields no frame; the frame kept here is never used
Files(layout) ==
    {[readable |-> FALSE, df |-> RawFrame(layout, <<>>)]}
    \cup {[readable |-> TRUE, df |-> RawFrame(layout, samples)] :
              samples \in SeqsUpTo(FileSamples, MaxFileRows)}

\* DataFrame.empty
empty(df) == df.rows = <<>> \/ df.columns = <<>>

\* one iteration of `for partner, conf in PARTNER_CONFIG.items()`
ProcessPartner ==
    /\ pc = "loop"
    /\ idx < Len(config)
    /\ \E file \in Files(config[idx + 1].layout) :
        LET conf == config[idx + 1]
            r == ingest_partner(conf, file, old_pandas)
        IN  /\ history' = Append(history, [file |-> file, result |-> r])
            /\ IF r.raised # "none"
               THEN /\ pc' = "raised"
                    /\ raised_by' = r.raised
                    /\ UNCHANGED <<all_partners, all_dropped>>
               ELSE /\ all_partners' = IF ~empty(r.std) THEN Append(all_partners, r.std)
                                       ELSE all_partners
                    /\ all_dropped' = IF ~empty(r.dropped) THEN Append(all_dropped, r.dropped)
                                      ELSE all_dropped
                    /\ UNCHANGED <<pc, raised_by>>
    /\ idx' = idx + 1
    /\ UNCHANGED <<config, old_pandas, unified_csv, dropped_csv, std_vars, phone_vars>>

\* after the loop: build the two frames and write them
WriteOutputs ==
    /\ pc = "loop"
    /\ idx = Len(config)
    /\ unified_csv' = [written |-> TRUE,
                       df |-> IF all_partners # <<>> THEN concat(all_partners) ELSE EmptyFrame]
    /\ dropped_csv' = [written |-> TRUE,
                       df |-> IF all_dropped # <<>> THEN concat(all_dropped) ELSE EmptyFrame]
    /\ pc' = "done"
    /\ UNCHANGED <<config, old_pandas, idx, all_partners, all_dropped, raised_by, history,
                   std_vars, phone_vars>>

(***************************************************************************)
(* Specifications.                                                         *)
(***************************************************************************)
Configs ==
    {[i \in DOMAIN ls |-> [partner_code |-> PartnerCode(i),
                           column_mapping |-> ls[i].column_mapping,
                           layout |-> ls[i]]] : ls \in SeqsUpTo(FileLayouts, MaxPartners)}

MainIdle ==
    /\ config = <<>>
    /\ old_pandas = FALSE
    /\ pc = "done"
    /\ idx = 0
    /\ all_partners = <<>>
    /\ all_dropped = <<>>
    /\ raised_by = "none"
    /\ unified_csv = NotWritten
    /\ dropped_csv = NotWritten
    /\ history = <<>>

StdIdle ==
    /\ phase = "idle"
    /\ df_in = EmptyFrame
    /\ conf_in = [partner_code |-> PartnerCode(1), column_mapping |-> IdentityMapping]
    /\ res = [raised |-> FALSE, std |-> EmptyFrame, dropped |-> EmptyFrame]
    /\ res2 = [raised |-> FALSE, std |-> EmptyFrame, dropped |-> EmptyFrame]

PhoneIdle ==
    /\ ph_phase = "idle"
    /\ phone_in = NaN
    /\ phone_out = None

\* main() over a configuration and a pandas version
Init ==
    /\ config \in Configs
    /\ old_pandas \in BOOLEAN
    /\ pc = "loop"
    /\ idx = 0
    /\ all_partners = <<>>
    /\ all_dropped = <<>>
    /\ raised_by = "none"
    /\ unified_csv = NotWritten
    /\ dropped_csv = NotWritten
    /\ history = <<>>
    /\ StdIdle
    /\ PhoneIdle

Next == ProcessPartner \/ WriteOutputs

Spec == Init /\ [][Next]_vars

\* standardize_dataframe on its own
InitStandardize == MainIdle /\ StdIdle /\ PhoneIdle

NextStandardize == StandardizeCall \/ StandardizeAgain

SpecStandardize == InitStandardize /\ [][NextStandardize]_vars

\* format_phone on its own
InitPhone == MainIdle /\ StdIdle /\ PhoneIdle

NextPhone == FormatPhoneCall

SpecPhone == InitPhone /\ [][NextPhone]_vars

(***************************************************************************)
(* Properties of one call of standardize_dataframe (SpecStandardize).      *)
(***************************************************************************)
Called == phase \in {"once", "twice"}
Returned == Called /\ ~res.raised

\* the frame after the rename, and after the missing columns are added
Renamed == rename(df_in, conf_in.column_mapping)
PostRename == ensure_columns(Renamed, CanonicalCols)

\* an identifier that is present and, whitespace set aside, not empty
PresentId(v) == v.k = "str" /\ \E i \in DOMAIN v.s : v.s[i] \notin {" ", "\t"}

IdOf(df, row) == CellOf(df, row, "external_id")
IdCount(df, v) == Cardinality({r \in DOMAIN df.rows : IdOf(df, df.rows[r]) = v})
IdsOf(df) == {IdOf(df, df.rows[r]) : r \in DOMAIN df.rows}

\* the rows of PostRename with, and without, a present identifier, in order
RECURSIVE RowsByPresence(_, _)
RowsByPresence(rows, present) ==
    IF rows = <<>> THEN <<>>
    ELSE (IF PresentId(IdOf(PostRename, Head(rows))) = present THEN <<Head(rows)>> ELSE <<>>)
         \o RowsByPresence(Tail(rows), present)

\* C1: every input row of a call that returns is in exactly one of the two
\* returned frames: the two lengths add up to the number of input rows, and
\* for every identifier value the input rows holding it are all in the
\* accepted frame or all in the dropped frame, as many as in the input.
C1_Partition ==
    Returned =>
        /\ Len(res.std.rows) + Len(res.dropped.rows) = Len(df_in.rows)
        /\ \A v \in IdsOf(PostRename) :
            /\ IdCount(res.std, v) + IdCount(res.dropped, v) = IdCount(PostRename, v)
            /\ IdCount(res.std, v) = 0 \/ IdCount(res.dropped, v) = 0

\* a call that accepted a row, dropped a whitespace-only id and a null id
C1_Witness ==
    /\ phase = "once"
    /\ ~res.raised
    /\ Len(res.std.rows) = 1
    /\ Len(res.dropped.rows) = 1
    /\ IdOf(res.dropped, res.dropped.rows[1]) = Str(<<" ", " ">>)

C4_NeverRaises == Called => ~res.raised

\* C7: every dropped record is its post-rename input row, every value
\* unchanged and every post-rename column kept, with a partner_code equal to
\* the configured one; the columns added for missing fields are absent.
C7_DroppedUnmodified ==
    Returned =>
        LET D == res.dropped
            src == RowsByPresence(PostRename.rows, FALSE)
        IN  /\ Len(D.rows) = Len(src)
            /\ \A r \in DOMAIN D.rows :
                /\ \A i \in DOMAIN Renamed.columns :
                    /\ D.columns[i] = Renamed.columns[i]
                    /\ D.rows[r][i] = src[r][i]
                /\ \A i \in DOMAIN D.columns :
                    i > Len(Renamed.columns) =>
                        IF D.columns[i] = "partner_code"
                        THEN D.rows[r][i] = Str(conf_in.partner_code)
                        ELSE isna(D.rows[r][i])
                /\ HasCol(D, "partner_code")

\* a dropped row that still holds its raw name, date, email and phone
C7_Witness ==
    /\ phase = "once"
    /\ ~res.raised
    /\ Len(res.dropped.rows) >= 1
    /\ HasCol(res.dropped, "PLAN")
    /\ CellOf(res.dropped, res.dropped.rows[1], "first_name") = Str(<<"j", "o", "H", "N">>)
    /\ CellOf(res.dropped, res.dropped.rows[1], "dob") = Str(<<"2", "0", "2", "0", "-", "0", "1", "-", "1", "5">>)
    /\ CellOf(res.dropped, res.dropped.rows[1], "partner_code") = Str(conf_in.partner_code)

\* a text that stands for a missing value, or holds nothing but whitespace
Placeholder(s) ==
    \/ str_lower(s) \in {<<"n", "a", "n">>, <<"<", "n", "a", ">">>, <<"n", "o", "n", "e">>}
    \/ \A i \in DOMAIN s : s[i] \in {" ", "\t"}

\* C8: in every accepted record a first_name, last_name or email is absent
\* or a text that is no placeholder and not blank, names title-cased and the
\* email lower-cased; and it is absent whenever the source value is null or
\* blank (a column missing after the rename included).
C8_NamesAndEmailNormalized ==
    Returned =>
        LET src == RowsByPresence(PostRename.rows, TRUE)
        IN  \A r \in DOMAIN res.std.rows :
                \A c \in {"first_name", "last_name", "email"} :
                    LET out == CellOf(res.std, res.std.rows[r], c)
                        in == CellOf(PostRename, src[r], c)
                    IN  /\ isna(out) \/ ~Placeholder(out.s)
                        /\ ~isna(out) =>
                            out.s = IF c = "email" THEN str_lower(out.s) ELSE str_title(out.s)
                        /\ (isna(in) \/ Placeholder(in.s)) => isna(out)

\* the same value, or the same absence
SameCell(a, b) == (isna(a) /\ isna(b)) \/ a = b

\* C9: standardizing an accepted frame again, with the identity mapping,
\* accepts every record and leaves every field as it was.
C9_Idempotent ==
    phase = "twice" =>
        /\ ~res2.raised
        /\ res2.dropped.rows = <<>>
        /\ Len(res2.std.rows) = Len(res.std.rows)
        /\ \A r \in DOMAIN res2.std.rows :
            \A i \in DOMAIN OutputCols :
                SameCell(res2.std.rows[r][i], res.std.rows[r][i])

(***************************************************************************)
(* Properties of one call of format_phone (SpecPhone).                     *)
(***************************************************************************)
DigitCount(s) ==
    Cardinality({i \in DOMAIN s :
                    s[i] \in {"0", "1", "2", "3", "4", "5", "6", "7", "8", "9"}})

\* C10: format_phone returns the digits of its argument as AAA-BBB-CCCC
\* exactly when it holds ten digits; for a null argument and for any other
\* number of digits it returns absent.
C10_FormatPhone ==
    ph_phase = "called" =>
        IF ~isna(phone_in) /\ DigitCount(phone_in.s) = 10
        THEN LET d == sub_nondigits(phone_in.s)
             IN  phone_out = Str(<<d[1], d[2], d[3], "-", d[4], d[5], d[6], "-",
                                   d[7], d[8], d[9], d[10]>>)
        ELSE phone_out = None

C10_Witness ==
    /\ ph_phase = "called"
    /\ phone_in = Str(<<"(", "5", "5", "5", ")", " ", "1", "2", "3", "-", "4", "5", "6", "7">>)
    /\ phone_out = Str(<<"5", "5", "5", "-", "1", "2", "3", "-", "4", "5", "6", "7">>)

(***************************************************************************)
(* Properties of main (Spec).                                              *)
(***************************************************************************)
\* C3: a failed read is not propagated, on either read path: the partner
\* contributes two empty frames, and main goes on with the partners left.
C3_ReadFailureContained ==
    /\ raised_by # "read"
    /\ \A i \in DOMAIN history :
        ~history[i].file.readable =>
            /\ history[i].result.raised = "none"
            /\ history[i].result.std.rows = <<>>
            /\ history[i].result.dropped.rows = <<>>

\* the rows each processed partner returned, in partner order, each with the
\* partner it came from and the frame it is a row of
RECURSIVE ReturnedRows(_, _)
ReturnedRows(i, kind) ==
    IF i = 0 THEN <<>>
    ELSE LET f == IF kind = "std" THEN history[i].result.std
                  ELSE history[i].result.dropped
         IN  ReturnedRows(i - 1, kind)
             \o [r \in DOMAIN f.rows |-> [partner |-> i, frame |-> f, row |-> f.rows[r]]]

\* the frame holds exactly the expected rows, in their order, each with every
\* value it was returned with and the partner_code of its partner
HoldsInOrder(df, expected) ==
    /\ Len(df.rows) = Len(expected)
    /\ \A k \in DOMAIN df.rows :
        /\ \A c \in Range(expected[k].frame.columns) :
            CellOf(df, df.rows[k], c) = CellOf(expected[k].frame, expected[k].row, c)
        /\ CellOf(df, df.rows[k], "partner_code")
               = Str(config[expected[k].partner].partner_code)

\* the partner a record of an output is tagged with
PartnerOf(df, row) ==
    CHOOSE i \in DOMAIN config : Str(config[i].partner_code) = CellOf(df, row, "partner_code")

PartnerOrder(df) ==
    \A k \in DOMAIN df.rows :
        k > 1 => PartnerOf(df, df.rows[k - 1]) <= PartnerOf(df, df.rows[k])

\* C5: once main has processed all partners, the unified dataset is the
\* accepted records of each partner, concatenated in the declared partner
\* order, and the dropped dataset the dropped records in the same order;
\* each record carries the partner_code of its partner and no record comes
\* before a record of an earlier partner.
C5_ConcatenatedInPartnerOrder ==
    pc = "done" =>
        /\ idx = Len(config)
        /\ Len(history) = Len(config)
        /\ unified_csv.written /\ dropped_csv.written
        /\ HoldsInOrder(unified_csv.df, ReturnedRows(Len(history), "std"))
        /\ HoldsInOrder(dropped_csv.df, ReturnedRows(Len(history), "dropped"))
        /\ PartnerOrder(unified_csv.df)
        /\ PartnerOrder(dropped_csv.df)

\* two partners, each with an accepted and a dropped row, then a dropped and
\* an accepted row
C5_Witness ==
    /\ pc = "done"
    /\ Len(config) = 2
    /\ Len(unified_csv.df.rows) = 2
    /\ Len(dropped_csv.df.rows) = 2
    /\ CellOf(unified_csv.df, unified_csv.df.rows[1], "partner_code") = Str(PartnerCode(1))
    /\ CellOf(unified_csv.df, unified_csv.df.rows[2], "partner_code") = Str(PartnerCode(2))
    /\ CellOf(dropped_csv.df, dropped_csv.df.rows[1], "partner_code") = Str(PartnerCode(1))
    /\ CellOf(dropped_csv.df, dropped_csv.df.rows[2], "partner_code") = Str(PartnerCode(2))

\* C6: when main has ended and no partner has contributed an accepted
\* (a dropped) row, the unified (the dropped) dataset is written, with the
\* canonical header and no row.  Stated for the runs in which
\* standardize_dataframe itself does not raise.
C6_EmptyOutputsWritten ==
    (pc # "loop" /\ raised_by # "standardize") =>
        /\ all_partners = <<>> =>
            /\ unified_csv.written
            /\ unified_csv.df = [columns |-> OutputCols, rows |-> <<>>]
        /\ all_dropped = <<>> =>
            /\ dropped_csv.written
            /\ dropped_csv.df = [columns |-> OutputCols, rows |-> <<>>]

====
